---- MODULE Spec2Model ----
(***************************************************************************)
(* Vun-Mail: the retry / rate-limit aware API access layer of bot.js and   *)
(* the proxy rotation module lib/proxies.js.                               *)
(*                                                                         *)
(* The process is single-threaded and cooperative: every action below is   *)
(* one run-to-completion slice of JavaScript, from one suspension point    *)
(* (await) to the next.  Time is in milliseconds and is kept relative: the  *)
(* code only uses Date.now() - lastRequestTime and timer delays.           *)
(***************************************************************************)
EXTENDS Integers, Sequences, FiniteSets, TLC

(* ------------------------------------------------------------------ *)
(* Bounds of the model                                                *)
(* ------------------------------------------------------------------ *)
NetLatency == 2500
MaxAdminOps == 1

(* ------------------------------------------------------------------ *)
(* Program constants                                                  *)
(* ------------------------------------------------------------------ *)
rateLimitDelay == 5000
defaultMaxRetries == 3
initialDelay == 1000

(* Chat handlers that may each have one provider operation under way. *)
Handlers == {"u1", "u2"}

(* Proxy addresses the administrator may type into the chat, all of   *)
(* them with a scheme, a host and a port.                              *)
Endpoints == {"http://p1:80", "http://p2:80", "http://p3:80"}

(* Proxy lists database/proxies.json may hold when the process starts. *)
StoredLists ==
  { <<>>, <<"http://p1:80">>, <<"http://p1:80", "http://p2:80">>, <<"http://p1:80", "http://p2:80", "http://p3:80", "http://p4:80", "http://p5:80">> }

(* Operations of the provider client, by the way they reach the network. *)
ProxyOps == {"getDomains", "generateEmail"}
PlainRetryOps == {"listUserEmails", "getMessages"}
RetryOps == ProxyOps \cup PlainRetryOps
DirectOps == {"listEmails", "getMessageDetail", "deleteEmail", "deleteMessage"}
Ops == RetryOps \cup DirectOps

(* HTTP outcomes of one upstream call; NoResponse is a transport error,    *)
(* for which error.response is undefined.                                  *)
NoResponse == 0
Statuses == {200, 429, 500, NoResponse}

VARIABLES
  proxyList,          \* lib/proxies.js: in-memory proxy list
  currentProxyIndex,  \* lib/proxies.js: rotation cursor
  saved,              \* content of database/proxies.json
  diskOk,             \* whether writing database/proxies.json succeeds
  ioFailed,           \* whether this process failed to read or write the file
  lastCall,           \* latest pool management call and what it returned
  handed,             \* getNextProxy results since the last pool change
  adminOps,           \* number of admin pool changes made so far
  API_KEY,            \* bot.js: the module constant read from the environment
  envApiKey,          \* process.env.API_KEY
  dotEnv,             \* the API_KEY line of the .env file
  snapshot,           \* the array a caller got from getAllProxies
  session,            \* per chat user: the step of userSessions[userId]
  owned,              \* per chat user: email ids of db.users[userId], in key order
  ADMIN_ID,           \* bot.js: parseInt(process.env.ADMIN_ID || '0')
  reply,              \* per chat user: what the latest handler told the user
  upstream,           \* email ids the provider holds
  sessionData,        \* per chat user: the other fields of userSessions[userId]
  listed,             \* per chat user: what listUserEmails last returned
  request,            \* per chat user: the provider call its handler prepared
  sinceLast,          \* bot.js: Date.now() - lastRequestTime, capped at rateLimitDelay
  pc,                 \* per handler: where its operation is suspended
  op,                 \* per handler: the provider operation it runs
  maxRetries,         \* per handler: retryWithBackoff argument
  totalProxies,       \* per handler: local const of retryWithBackoff
  actualMaxRetries,   \* per handler: local const of retryWithBackoff
  startIndex,         \* per handler: rotation cursor when the operation began
  i,                  \* per handler: loop index of retryWithBackoff
  timer,              \* per handler: time left on the pending setTimeout
  used,               \* per handler: proxy selected by each upstream call
  replies,            \* per handler: HTTP outcome of each settled upstream call
  sleeps,             \* per handler: delay of each backoff setTimeout
  gates,              \* per handler: times lastRequestTime was recorded
  sentKey,            \* per handler: X-API-Key header of its latest request
  outcome             \* per handler: what the operation gave its caller

storeVars == << saved, diskOk, ioFailed, lastCall >>
keyVars == << API_KEY, envApiKey, dotEnv >>
adminVars == << adminOps, keyVars >>
userVars == << ADMIN_ID, reply, upstream, sessionData, listed, request >>
callerVars == << snapshot, session, owned, userVars >>
poolVars ==
  << proxyList, currentProxyIndex, storeVars, handed, adminVars, callerVars >>
localVars == << op, maxRetries, totalProxies, actualMaxRetries, startIndex >>
procVars ==
  << sinceLast, pc, localVars, i, timer, used, replies, sleeps, gates, sentKey,
     outcome >>
vars == << poolVars, procVars >>

(* ------------------------------------------------------------------ *)
(* JavaScript numbers as far as line 167 of bot.js needs them         *)
(* ------------------------------------------------------------------ *)
Num(n) == [nan |-> FALSE, inf |-> FALSE, v |-> n]
NaN == [nan |-> TRUE, inf |-> FALSE, v |-> 0]
Infinity == [nan |-> FALSE, inf |-> TRUE, v |-> 0]

Max(a, b) == IF a >= b THEN a ELSE b
Min(a, b) == IF a <= b THEN a ELSE b

RECURSIVE Pow2(_)
Pow2(n) == IF n = 0 THEN 1 ELSE 2 * Pow2(n - 1)

(* Math.floor(a / n) for non-negative integers a, n: 0/0 is NaN and a     *)
(* positive number over 0 is Infinity.                                     *)
FloorDiv(a, n) ==
  IF n # 0 THEN Num(a \div n)
  ELSE IF a = 0 THEN NaN ELSE Infinity

(* base * Math.pow(2, e) *)
ScaledPow2(base, e) ==
  IF e.nan THEN NaN
  ELSE IF e.inf THEN Infinity
  ELSE Num(base * Pow2(e.v))

(* setTimeout coerces a delay that is not a number of at least 1 to 1 ms. *)
TimerDelay(d) ==
  IF d.nan \/ d.inf \/ d.v < 1 THEN 1 ELSE d.v

(* ------------------------------------------------------------------ *)
(* lib/proxies.js, pure parts                                         *)
(* ------------------------------------------------------------------ *)
Includes(list, e) == \E k \in DOMAIN list : list[k] = e

IndexOfLast(list, e) ==
  IF Includes(list, e)
    THEN (CHOOSE k \in DOMAIN list :
            list[k] = e /\ \A m \in DOMAIN list : list[m] = e => k >= m) - 1
    ELSE -1

(* indexOf, 0-based, -1 when absent *)
IndexOf(list, e) ==
  IF Includes(list, e)
    THEN (CHOOSE k \in DOMAIN list :
            list[k] = e /\ \A m \in DOMAIN list : list[m] = e => k <= m) - 1
    ELSE -1

(* splice(index, 1) *)
Splice1(list, index) ==
  SubSeq(list, 1, index) \o SubSeq(list, index + 2, Len(list))

GetNextProxyValueUnguarded(list, index) ==
  IF index + 1 \in DOMAIN list THEN list[index + 1] ELSE "undefined"

(* value returned by getNextProxy; an index past the end reads undefined *)
GetNextProxyValue(list, index) ==
  IF Len(list) = 0 THEN "null"
  ELSE IF index + 1 \in DOMAIN list THEN list[index + 1]
  ELSE "undefined"

(* cursor left behind by getNextProxy *)
GetNextProxyIndex(list, index) ==
  IF Len(list) = 0 THEN index ELSE (index + 1) % Len(list)

(* the window of the latest getNextProxy results, one longer than the pool *)
Handed(h, v, list) ==
  IF Len(h) > Len(list) THEN Append(Tail(h), v) ELSE Append(h, v)

(* ------------------------------------------------------------------ *)
(* retryWithBackoff, pure parts                                       *)
(* ------------------------------------------------------------------ *)
ActualMaxRetriesNoProxies(mr, tp) == mr

ActualMaxRetries(mr, tp) == IF tp > 0 THEN Max(mr, tp) ELSE mr

ShouldRetryOffByOne(status, idx, amr) == status = 429 /\ idx < amr

ShouldRetryAnyError(status, idx, amr) == status # 200 /\ idx < amr - 1

ShouldRetryGivesUpEarly(status, idx, amr) == status = 429 /\ idx < amr - 2

ShouldRetryAlways(status, idx, amr) == status = 429

ShouldRetry(status, idx, amr) == status = 429 /\ idx < amr - 1

BackoffDelayPlain(base, idx, tp) == ScaledPow2(base, Num(idx))

BackoffDelay(base, idx, tp) == ScaledPow2(base, FloorDiv(idx, tp))

(* the 2xx response of upstream call number k of handler p *)
Response(p, k) == [status |-> 200, data |-> << p, k >>]

ResultOfDropped(o, response) == <<>>

(* what the wrapped function hands back: response.data *)
ResultOf(o, response) == response.data

(* a call of lib/proxies.js as its caller sees it *)
Call(name, arg, ret) == [name |-> name, arg |-> arg, ret |-> ret]
NoCall == Call("none", <<>>, "undefined")

(* Texts a caller may pass to addProxy or the administrator may send  *)
(* while a proxy address is awaited: an address, a scheme alone, an     *)
(* address without a scheme, and nothing but blanks (trimmed).         *)
TypedTexts == { "http://p1:80", "https://", "10.0.0.1:8080", "" }

(* String.prototype.startsWith *)
StartsWith(text, prefix) ==
  Len(text) >= Len(prefix) /\ SubSeq(text, 1, Len(prefix)) = prefix

(* an array in a caller's hands: whether it holds one, whether it is   *)
(* the very array object of the module, and its elements               *)
NoSnapshot == [held |-> FALSE, sameArray |-> FALSE, list |-> <<>>]

(* API keys: the one in .env when the process starts, the texts the   *)
(* administrator may send as a new key, and no key                     *)
StartKey == "key-0-aaaaaaaaaaaaaaaaaaaa"
TypedKeys == {"key-1-bbbbbbbbbbbbbbbbbbbb", "key-2-cccccccccccccccccccc", "key-3-short"}
NoKey == ""
MinKeyLength == 20

(* headers of every upstream request: { 'X-API-Key': API_KEY } *)
RequestHeaders == [XApiKey |-> API_KEY]

NoRequest ==
  [handler |-> "none", op |-> "none", arg |-> << >>, target |-> "undefined",
   detached |-> FALSE]

NoListing == [emails |-> << >>, total |-> 0]

NoFields ==
  [emails |-> << >>, adminUserEmails |-> << >>,
   adminTargetUserId |-> "undefined", domain |-> "undefined",
   prefix |-> "undefined"]

NoOutcome == [kind |-> "none", status |-> 0, data |-> <<>>, generic |-> FALSE]
Returned(data) == [kind |-> "ok", status |-> 200, data |-> data, generic |-> FALSE]
ReturnedNothing == [kind |-> "undefined", status |-> 0, data |-> <<>>, generic |-> FALSE]
Threw(status) == [kind |-> "err", status |-> status, data |-> <<>>, generic |-> FALSE]
(* new Error('Failed to ...'): a fixed message and no response attached *)
ThrewGeneric == [kind |-> "err", status |-> NoResponse, data |-> <<>>, generic |-> TRUE]

(* ------------------------------------------------------------------ *)
(* Initial state: the modules have been loaded, no update handled yet *)
(* ------------------------------------------------------------------ *)
Loaded ==
  /\ saved \in StoredLists
  /\ proxyList = saved
  /\ currentProxyIndex = 0
  /\ diskOk = TRUE
  /\ ioFailed = FALSE
  /\ lastCall = NoCall
  /\ handed = <<>>
  /\ adminOps = 0
  /\ API_KEY = StartKey
  /\ envApiKey = StartKey
  /\ dotEnv = StartKey
  /\ snapshot = NoSnapshot
  /\ session = [p \in Handlers |-> "undefined"]
  /\ reply = [p \in Handlers |-> "none"]
  /\ sessionData = [p \in Handlers |-> NoFields]
  /\ listed = [p \in Handlers |-> NoListing]
  /\ request = [p \in Handlers |-> NoRequest]
  /\ sinceLast = rateLimitDelay
  /\ pc = [p \in Handlers |-> "idle"]
  /\ op = [p \in Handlers |-> "none"]
  /\ maxRetries = [p \in Handlers |-> 0]
  /\ totalProxies = [p \in Handlers |-> 0]
  /\ actualMaxRetries = [p \in Handlers |-> 0]
  /\ startIndex = [p \in Handlers |-> 0]
  /\ i = [p \in Handlers |-> 0]
  /\ timer = [p \in Handlers |-> 0]
  /\ used = [p \in Handlers |-> <<>>]
  /\ replies = [p \in Handlers |-> <<>>]
  /\ sleeps = [p \in Handlers |-> <<>>]
  /\ gates = [p \in Handlers |-> 0]
  /\ sentKey = [p \in Handlers |-> NoKey]
  /\ outcome = [p \in Handlers |-> NoOutcome]

(* A first start: an administrator is configured, user 1; the users   *)
(* database is empty and the provider holds no address of this bot.   *)
Init ==
  /\ Loaded
  /\ ADMIN_ID = 1
  /\ owned = [p \in Handlers |-> <<>>]
  /\ upstream = << >>

(* ------------------------------------------------------------------ *)
(* retryWithBackoff, one slice per action                             *)
(* ------------------------------------------------------------------ *)

(* bot.js 162-163 and the synchronous start of the wrapped function:  *)
(* record the attempt's start, select a proxy, issue the request.     *)
PassGate(p, o) ==
  /\ sinceLast' = 0
  /\ gates' = [gates EXCEPT ![p] = @ + 1]
  /\ IF o \in ProxyOps
       THEN LET proxy == GetNextProxyValue(proxyList, currentProxyIndex) IN
            /\ currentProxyIndex' = GetNextProxyIndex(proxyList, currentProxyIndex)
            /\ handed' = Handed(handed, proxy, proxyList)
            /\ used' = [used EXCEPT ![p] = Append(@, proxy)]
       ELSE /\ used' = [used EXCEPT ![p] = Append(@, "unrouted")]
            /\ UNCHANGED << currentProxyIndex, handed >>
  /\ sentKey' = [sentKey EXCEPT ![p] = RequestHeaders.XApiKey]
  /\ pc' = [pc EXCEPT ![p] = "net"]
  /\ UNCHANGED << timer, outcome >>

GateStepOpen(p, o) == PassGate(p, o)

(* bot.js 156-160: the rate gate reads lastRequestTime, and either    *)
(* suspends on a timer or goes on in the same slice.                  *)
GateStep(p, o) ==
  LET timeSinceLastRequest == sinceLast IN
  IF timeSinceLastRequest < rateLimitDelay
    THEN LET waitTime == rateLimitDelay - timeSinceLastRequest IN
         /\ pc' = [pc EXCEPT ![p] = "gate"]
         /\ timer' = [timer EXCEPT ![p] = TimerDelay(Num(waitTime))]
         /\ UNCHANGED << sinceLast, gates, used, currentProxyIndex, handed,
                         sentKey, outcome >>
    ELSE PassGate(p, o)

(* bot.js 153: the loop condition; falling out of the loop returns    *)
(* undefined.                                                         *)
LoopStep(p, o, idx, amr) ==
  IF idx < amr
    THEN GateStep(p, o)
    ELSE /\ pc' = [pc EXCEPT ![p] = "done"]
         /\ outcome' = [outcome EXCEPT ![p] = ReturnedNothing]
         /\ UNCHANGED << sinceLast, gates, used, currentProxyIndex, handed,
                         sentKey, timer >>

(* A handler calls getDomains, generateEmail, listUserEmails or       *)
(* getMessages: bot.js 148-153, then the first gate check.            *)
Invoke(p, o, mr) ==
  /\ pc[p] = "idle"
  /\ o \in RetryOps
  /\ op' = [op EXCEPT ![p] = o]
  /\ maxRetries' = [maxRetries EXCEPT ![p] = mr]
  /\ totalProxies' = [totalProxies EXCEPT ![p] = Len(proxyList)]
  /\ actualMaxRetries' =
       [actualMaxRetries EXCEPT ![p] = ActualMaxRetries(mr, Len(proxyList))]
  /\ startIndex' = [startIndex EXCEPT ![p] = currentProxyIndex]
  /\ i' = [i EXCEPT ![p] = 0]
  /\ LoopStep(p, o, 0, ActualMaxRetries(mr, Len(proxyList)))
  /\ UNCHANGED << proxyList, storeVars, adminVars, callerVars, replies, sleeps >>

(* The gate timer of bot.js 159 fires. *)
GateWake(p) ==
  /\ pc[p] = "gate"
  /\ timer[p] = 0
  /\ PassGate(p, op[p])
  /\ UNCHANGED << proxyList, storeVars, adminVars, callerVars, localVars, i, replies,
                  sleeps >>

RespondRereadsCount(p, status) ==
  /\ pc[p] = "net"
  /\ op[p] \in RetryOps
  /\ replies' = [replies EXCEPT ![p] = Append(@, status)]
  /\ IF status = 200
       THEN /\ pc' = [pc EXCEPT ![p] = "done"]
            /\ outcome' =
                 [outcome EXCEPT
                    ![p] = Returned(ResultOf(op[p], Response(p, Len(used[p]))))]
            /\ UNCHANGED << currentProxyIndex, handed, sleeps, timer >>
       ELSE IF ShouldRetry(status, i[p],
                           ActualMaxRetries(maxRetries[p], Len(proxyList)))
         THEN LET delay == BackoffDelay(initialDelay, i[p], Len(proxyList))
                  nextProxy == GetNextProxyValue(proxyList, currentProxyIndex)
              IN
              /\ currentProxyIndex' = GetNextProxyIndex(proxyList, currentProxyIndex)
              /\ handed' = Handed(handed, nextProxy, proxyList)
              /\ sleeps' = [sleeps EXCEPT ![p] = Append(@, delay)]
              /\ timer' = [timer EXCEPT ![p] = TimerDelay(delay)]
              /\ pc' = [pc EXCEPT ![p] = "backoff"]
              /\ UNCHANGED outcome
         ELSE /\ pc' = [pc EXCEPT ![p] = "done"]
              /\ outcome' = [outcome EXCEPT ![p] = Threw(status)]
              /\ UNCHANGED << currentProxyIndex, handed, sleeps, timer >>
  /\ UNCHANGED << proxyList, storeVars, adminVars, callerVars, sinceLast, gates, used,
                  sentKey, i, localVars >>

(* The upstream call of a wrapped function settles: bot.js 163-175. *)
Respond(p, status) ==
  /\ pc[p] = "net"
  /\ op[p] \in RetryOps
  /\ replies' = [replies EXCEPT ![p] = Append(@, status)]
  /\ IF status = 200
       THEN /\ pc' = [pc EXCEPT ![p] = "done"]
            /\ outcome' =
                 [outcome EXCEPT
                    ![p] = Returned(ResultOf(op[p], Response(p, Len(used[p]))))]
            /\ UNCHANGED << currentProxyIndex, handed, sleeps, timer >>
       ELSE IF ShouldRetry(status, i[p], actualMaxRetries[p])
         THEN LET delay == BackoffDelay(initialDelay, i[p], totalProxies[p])
                  nextProxy == GetNextProxyValue(proxyList, currentProxyIndex)
              IN
              /\ currentProxyIndex' = GetNextProxyIndex(proxyList, currentProxyIndex)
              /\ handed' = Handed(handed, nextProxy, proxyList)
              /\ sleeps' = [sleeps EXCEPT ![p] = Append(@, delay)]
              /\ timer' = [timer EXCEPT ![p] = TimerDelay(delay)]
              /\ pc' = [pc EXCEPT ![p] = "backoff"]
              /\ UNCHANGED outcome
         ELSE /\ pc' = [pc EXCEPT ![p] = "done"]
              /\ outcome' = [outcome EXCEPT ![p] = Threw(status)]
              /\ UNCHANGED << currentProxyIndex, handed, sleeps, timer >>
  /\ UNCHANGED << proxyList, storeVars, adminVars, callerVars, sinceLast, gates, used,
                  sentKey, i, localVars >>

BackoffWakeEarly(p) ==
  /\ pc[p] = "backoff"
  /\ i' = [i EXCEPT ![p] = @ + 1]
  /\ LoopStep(p, op[p], i[p] + 1, actualMaxRetries[p])
  /\ UNCHANGED << proxyList, storeVars, adminVars, callerVars, localVars, replies,
                  sleeps >>

(* The backoff timer of bot.js 172 fires; continue with i + 1. *)
BackoffWake(p) ==
  /\ pc[p] = "backoff"
  /\ timer[p] = 0
  /\ i' = [i EXCEPT ![p] = @ + 1]
  /\ LoopStep(p, op[p], i[p] + 1, actualMaxRetries[p])
  /\ UNCHANGED << proxyList, storeVars, adminVars, callerVars, localVars, replies,
                  sleeps >>

(* ------------------------------------------------------------------ *)
(* The operations that call axios directly: bot.js 239-313            *)
(* ------------------------------------------------------------------ *)
InvokeDirectGated(p, o) ==
  /\ pc[p] = "idle"
  /\ o \in DirectOps
  /\ op' = [op EXCEPT ![p] = o]
  /\ sinceLast' = 0
  /\ used' = [used EXCEPT ![p] = Append(@, "unrouted")]
  /\ sentKey' = [sentKey EXCEPT ![p] = RequestHeaders.XApiKey]
  /\ pc' = [pc EXCEPT ![p] = "net"]
  /\ UNCHANGED << poolVars, maxRetries, totalProxies,
                  actualMaxRetries, startIndex, i, timer, replies, sleeps,
                  gates, outcome >>

InvokeDirect(p, o) ==
  /\ pc[p] = "idle"
  /\ o \in DirectOps
  /\ op' = [op EXCEPT ![p] = o]
  /\ used' = [used EXCEPT ![p] = Append(@, "unrouted")]
  /\ sentKey' = [sentKey EXCEPT ![p] = RequestHeaders.XApiKey]
  /\ pc' = [pc EXCEPT ![p] = "net"]
  /\ UNCHANGED << poolVars, sinceLast, maxRetries, totalProxies,
                  actualMaxRetries, startIndex, i, timer, replies, sleeps,
                  gates, outcome >>

(* Their catch blocks throw a new Error with a fixed message. *)
RespondDirect(p, status) ==
  /\ pc[p] = "net"
  /\ op[p] \in DirectOps
  /\ replies' = [replies EXCEPT ![p] = Append(@, status)]
  /\ pc' = [pc EXCEPT ![p] = "done"]
  /\ outcome' =
       [outcome EXCEPT
          ![p] = IF status = 200
                   THEN Returned(ResultOf(op[p], Response(p, Len(used[p]))))
                   ELSE ThrewGeneric]
  /\ UNCHANGED << poolVars, sinceLast, localVars, i, timer, used, sleeps,
                  gates, sentKey >>

(* The handler's promise has settled and the handler is over; the chat *)
(* user may send the next update.  Rearm clears what the model kept of *)
(* the handler's operation.                                            *)
Rearm(p) ==
  /\ pc' = [pc EXCEPT ![p] = "idle"]
  /\ op' = [op EXCEPT ![p] = "none"]
  /\ maxRetries' = [maxRetries EXCEPT ![p] = 0]
  /\ totalProxies' = [totalProxies EXCEPT ![p] = 0]
  /\ actualMaxRetries' = [actualMaxRetries EXCEPT ![p] = 0]
  /\ startIndex' = [startIndex EXCEPT ![p] = 0]
  /\ i' = [i EXCEPT ![p] = 0]
  /\ used' = [used EXCEPT ![p] = <<>>]
  /\ replies' = [replies EXCEPT ![p] = <<>>]
  /\ sleeps' = [sleeps EXCEPT ![p] = <<>>]
  /\ gates' = [gates EXCEPT ![p] = 0]
  /\ sentKey' = [sentKey EXCEPT ![p] = NoKey]
  /\ outcome' = [outcome EXCEPT ![p] = NoOutcome]
  /\ UNCHANGED << sinceLast, timer >>

Finish(p) ==
  /\ pc[p] = "done"
  /\ Rearm(p)
  /\ UNCHANGED poolVars

(* ------------------------------------------------------------------ *)
(* Chat users, their sessions and the users database: bot.js 90-135   *)
(* ------------------------------------------------------------------ *)
UserId(p) == IF p = "u1" THEN 1 ELSE 2

IsAdminOnceConfigured(p) == ADMIN_ID # 0

(* isAdmin: ADMIN_ID && userId === ADMIN_ID *)
IsAdmin(p) == ADMIN_ID # 0 /\ UserId(p) = ADMIN_ID

Range(list) == { list[k] : k \in DOMAIN list }

(* db.users[userId][emailId] = true: a new key comes last *)
AddEmailToUser(record, id) ==
  IF id \in Range(record) THEN record ELSE Append(record, id)

KeepEmail(record, id) == record

(* delete db.users[userId][emailId] *)
RemoveEmailFromUser(record, id) == SelectSeq(record, LAMBDA e : e # id)

Suspended(p) == pc[p] \in {"gate", "net", "backoff"}

(* A handler that has something to run now: the rest of a handler     *)
(* whose awaited call has settled, or the call a handler prepared.    *)
Ready(q) ==
  \/ pc[q] = "done"
  \/ pc[q] = "idle" /\ request[q].op # "none"

(* The next update is taken up once nothing is ready to run. *)
Arrives == \A q \in Handlers : ~Ready(q)

Says(p, text) == reply' = [reply EXCEPT ![p] = text]

SessionFrame ==
  UNCHANGED << proxyList, currentProxyIndex, storeVars, handed, adminVars,
               snapshot, ADMIN_ID >>

(* userSessions[userId] = { step }: a new object; a handler of this    *)
(* user that is suspended goes on holding the object it started with. *)
NewSession(p, step) ==
  /\ session' = [session EXCEPT ![p] = step]
  /\ sessionData' = [sessionData EXCEPT ![p] = NoFields]
  /\ request' = [request EXCEPT
                   ![p] = IF @.op # "none" THEN [@ EXCEPT !.detached = TRUE]
                                             ELSE @]

(* a handler calls the provider with what it has in hand *)
Prepare(p, handler, o, arg, target) ==
  request' = [request EXCEPT
                ![p] = [handler |-> handler, op |-> o, arg |-> arg,
                        target |-> target, detached |-> FALSE]]

Dispatch(p) ==
  /\ Ready(p) /\ pc[p] = "idle"
  /\ IF request[p].op \in RetryOps
       THEN Invoke(p, request[p].op, defaultMaxRetries)
       ELSE InvokeDirect(p, request[p].op)

(* ------------------------------------------------------------------ *)
(* The create-email dialogue of one chat user: bot.js 345-589         *)
(* ------------------------------------------------------------------ *)
(* /start *)
Start(p) ==
  /\ Arrives
  /\ NewSession(p, "empty")
  /\ Says(p, "welcome")
  /\ SessionFrame
  /\ UNCHANGED << owned, upstream, listed, procVars >>

(* /create or the create_email button: await getDomains() *)
CreateCommand(p) == Arrives /\ Invoke(p, "getDomains", defaultMaxRetries)

(* ... and what follows the await: a new session object with the domains *)
CreateDone(p) ==
  /\ pc[p] = "done"
  /\ op[p] = "getDomains"
  /\ IF outcome[p].kind = "ok"
       THEN NewSession(p, "domain_selection") /\ Says(p, "select_domain")
       ELSE Says(p, "error") /\ UNCHANGED << session, sessionData, request >>
  /\ Rearm(p)
  /\ SessionFrame
  /\ UNCHANGED << owned, upstream, listed >>

(* a domain button: userSessions[userId].domain = domain, with no look *)
(* at whether there is a session                                       *)
DomainAction(p) ==
  /\ Arrives
  /\ IF session[p] = "undefined"
       THEN Says(p, "TypeError") /\ UNCHANGED << session, sessionData >>
       ELSE /\ session' = [session EXCEPT ![p] = "email_prefix"]
            /\ sessionData' = [sessionData EXCEPT ![p].domain = "domain"]
            /\ Says(p, "enter_prefix")
  /\ SessionFrame
  /\ UNCHANGED << owned, upstream, listed, request, procVars >>

(* the cancel_create button *)
CancelCreate(p) ==
  /\ Arrives
  /\ NewSession(p, "empty")
  /\ Says(p, "action_cancelled")
  /\ SessionFrame
  /\ UNCHANGED << owned, upstream, listed, procVars >>

(* a text message while the step is email_prefix *)
PrefixText(p) ==
  /\ Arrives
  /\ session[p] = "email_prefix"
  /\ session' = [session EXCEPT ![p] = "expiry_time"]
  /\ sessionData' = [sessionData EXCEPT ![p].prefix = "prefix"]
  /\ Says(p, "select_expiry")
  /\ SessionFrame
  /\ UNCHANGED << owned, upstream, listed, request, procVars >>

(* an expiry button: whatever the step, the handler takes the session  *)
(* object and goes on to generateEmail(session.prefix, expiryTime,     *)
(* session.domain); without a session object session.prefix throws     *)
(* inside the try block.                                               *)
ExpiryAction(p) ==
  /\ Arrives /\ pc[p] = "idle"
  /\ IF session[p] = "undefined"
       THEN Says(p, "error TypeError") /\ UNCHANGED request
       ELSE /\ Prepare(p, "expiry", "generateEmail",
                       << sessionData[p].prefix, sessionData[p].domain >>,
                       "undefined")
            /\ Says(p, "creating")
  /\ SessionFrame
  /\ UNCHANGED << session, sessionData, owned, upstream, listed, procVars >>

(* ... and what follows the await: addEmailToUser(userId, result.id),  *)
(* then lastEmail and step = null on the session object the handler   *)
(* took hold of when it began.                                         *)
ExpiryDone(p) ==
  /\ pc[p] = "done"
  /\ op[p] = "generateEmail"
  /\ IF outcome[p].kind = "ok"
       THEN /\ owned' = [owned EXCEPT ![p] = AddEmailToUser(@, outcome[p].data)]
            /\ upstream' = AddEmailToUser(upstream, outcome[p].data)
            /\ session' = [session EXCEPT
                             ![p] = IF request[p].detached THEN @ ELSE "null"]
            /\ Says(p, "email_created")
       ELSE /\ Says(p, "error")
            /\ UNCHANGED << owned, upstream, listed, session >>
  /\ request' = [request EXCEPT ![p] = NoRequest]
  /\ Rearm(p)
  /\ SessionFrame
  /\ UNCHANGED << sessionData, listed >>

CancelAborts(p) ==
  /\ Arrives
  /\ IF session[p] = "undefined"
       THEN UNCHANGED << session, sessionData >>
       ELSE /\ session' = [session EXCEPT ![p] = "empty"]
            /\ sessionData' = [sessionData EXCEPT ![p] = NoFields]
  /\ request' = [request EXCEPT ![p] = NoRequest]
  /\ Says(p, "action_cancelled")
  /\ Rearm(p)
  /\ SessionFrame
  /\ UNCHANGED << owned, upstream, listed >>

(* /cancel: userSessions[userId] = {} if there is a session *)
Cancel(p) ==
  /\ Arrives
  /\ IF session[p] = "undefined"
       THEN UNCHANGED << session, sessionData, request >>
       ELSE NewSession(p, "empty")
  /\ Says(p, "action_cancelled")
  /\ SessionFrame
  /\ UNCHANGED << owned, upstream, listed, procVars >>

(* the back_menu button *)
BackMenu(p) ==
  /\ Arrives
  /\ NewSession(p, "empty")
  /\ Says(p, "what_to_do")
  /\ SessionFrame
  /\ UNCHANGED << owned, upstream, listed, procVars >>

(* ------------------------------------------------------------------ *)
(* The clock                                                          *)
(* ------------------------------------------------------------------ *)

(* Amounts by which the clock may move: up to the expiry of a pending  *)
(* timer, or, with no timer pending, by the latency of the network and *)
(* of the chat users.                                                  *)
TimeSteps ==
  { timer[p] : p \in Handlers } \cup
  (IF \A p \in Handlers : timer[p] = 0 THEN { NetLatency } ELSE {})

Tick ==
  /\ \E d \in TimeSteps :
       /\ d > 0
       /\ sinceLast' = Min(sinceLast + d, rateLimitDelay)
       /\ timer' = [p \in Handlers |-> Max(timer[p] - d, 0)]
  /\ << sinceLast', timer' >> # << sinceLast, timer >>
  /\ UNCHANGED << poolVars, pc, localVars, i, used, replies, sleeps, gates,
                  sentKey, outcome >>

(* ------------------------------------------------------------------ *)
(* Pool management: lib/proxies.js                                    *)
(* ------------------------------------------------------------------ *)

(* saveProxies: a failing write is caught and only logged *)
SaveProxiesStale(list) ==
  /\ saved' = IF diskOk THEN proxyList ELSE saved
  /\ ioFailed' = (ioFailed \/ ~diskOk)

SaveProxies(list) ==
  /\ saved' = IF diskOk THEN list ELSE saved
  /\ ioFailed' = (ioFailed \/ ~diskOk)

(* loadProxies: the stored list, or [] when the file cannot be read *)
LoadProxies(file, readable) == IF readable THEN file ELSE <<>>

AddProxyRollsBack(proxy) ==
  /\ IF proxy # "" /\ ~Includes(proxyList, proxy) /\ diskOk
       THEN /\ proxyList' = Append(proxyList, proxy)
            /\ SaveProxies(Append(proxyList, proxy))
            /\ handed' = <<>>
            /\ lastCall' = Call("addProxy", << proxy >>, "true")
       ELSE /\ UNCHANGED << proxyList, saved, handed >>
            /\ ioFailed' = (ioFailed \/ ~diskOk)
            /\ lastCall' = Call("addProxy", << proxy >>, "false")
  /\ UNCHANGED << currentProxyIndex, diskOk >>

AddProxyAgain(proxy) ==
  /\ IF proxy # ""
       THEN /\ proxyList' = Append(proxyList, proxy)
            /\ SaveProxies(Append(proxyList, proxy))
            /\ handed' = <<>>
            /\ lastCall' = Call("addProxy", << proxy >>, "true")
       ELSE /\ UNCHANGED << proxyList, saved, ioFailed, handed >>
            /\ lastCall' = Call("addProxy", << proxy >>, "false")
  /\ UNCHANGED << currentProxyIndex, diskOk >>

AddProxy(proxy) ==
  /\ IF proxy # "" /\ ~Includes(proxyList, proxy)
       THEN /\ proxyList' = Append(proxyList, proxy)
            /\ SaveProxies(Append(proxyList, proxy))
            /\ handed' = <<>>
            /\ lastCall' = Call("addProxy", << proxy >>, "true")
       ELSE /\ UNCHANGED << proxyList, saved, ioFailed, handed >>
            /\ lastCall' = Call("addProxy", << proxy >>, "false")
  /\ UNCHANGED << currentProxyIndex, diskOk >>

RemoveProxy(proxy) ==
  /\ LET index == IndexOf(proxyList, proxy) IN
     IF index # -1
       THEN /\ proxyList' = Splice1(proxyList, index)
            /\ SaveProxies(Splice1(proxyList, index))
            /\ handed' = <<>>
            /\ lastCall' = Call("removeProxy", << proxy >>, "true")
       ELSE /\ UNCHANGED << proxyList, saved, ioFailed, handed >>
            /\ lastCall' = Call("removeProxy", << proxy >>, "false")
  /\ UNCHANGED << currentProxyIndex, diskOk >>

ReplaceProxiesKeepsCursor(newProxyList) ==
  /\ proxyList' = newProxyList
  /\ SaveProxies(newProxyList)
  /\ handed' = <<>>
  /\ lastCall' = Call("replaceProxies", newProxyList, "undefined")
  /\ UNCHANGED << currentProxyIndex, diskOk >>

ReplaceProxies(newProxyList) ==
  /\ proxyList' = newProxyList
  /\ currentProxyIndex' = 0
  /\ SaveProxies(newProxyList)
  /\ handed' = <<>>
  /\ lastCall' = Call("replaceProxies", newProxyList, "undefined")
  /\ UNCHANGED diskOk

ResetProxyIndexKeepsCursor ==
  /\ handed' = <<>>
  /\ lastCall' = Call("resetProxyIndex", <<>>, "undefined")
  /\ UNCHANGED << proxyList, currentProxyIndex, saved, diskOk, ioFailed >>

ResetProxyIndex ==
  /\ currentProxyIndex' = 0
  /\ handed' = <<>>
  /\ lastCall' = Call("resetProxyIndex", <<>>, "undefined")
  /\ UNCHANGED << proxyList, saved, diskOk, ioFailed >>

GetProxyCount == Len(proxyList)

(* a caller of the module takes the next proxy *)
GetNextProxy ==
  /\ currentProxyIndex' = GetNextProxyIndex(proxyList, currentProxyIndex)
  /\ handed' =
       Handed(handed, GetNextProxyValue(proxyList, currentProxyIndex), proxyList)
  /\ UNCHANGED << proxyList, storeVars >>

GetAllProxiesByReference ==
  /\ snapshot' = [held |-> TRUE, sameArray |-> TRUE, list |-> proxyList]
  /\ UNCHANGED << proxyList, currentProxyIndex, storeVars, handed >>

(* getAllProxies: [...proxyList], a new array with the same elements *)
GetAllProxies ==
  /\ snapshot' = [held |-> TRUE, sameArray |-> FALSE, list |-> proxyList]
  /\ UNCHANGED << proxyList, currentProxyIndex, storeVars, handed >>

(* What a caller does to the array it was given: pop() and [0] = e.   *)
(* A change of an array object shows wherever that object is held.    *)
CallerWrites(newList) ==
  /\ snapshot.held
  /\ snapshot' = [snapshot EXCEPT !.list = newList]
  /\ IF snapshot.sameArray
       THEN proxyList' = newList
       ELSE UNCHANGED proxyList
  /\ UNCHANGED << currentProxyIndex, storeVars, handed >>

CallerPop ==
  /\ Len(snapshot.list) > 0
  /\ CallerWrites(SubSeq(snapshot.list, 1, Len(snapshot.list) - 1))

CallerSetFirst(e) ==
  /\ Len(snapshot.list) > 0
  /\ CallerWrites([snapshot.list EXCEPT ![1] = e])

(* A caller passes its own array to replaceProxies, which keeps that  *)
(* very array as the pool's list (proxyList = newProxyList), so the   *)
(* caller goes on holding the array the pool now uses.                *)
CallerReplaceProxies(newProxyList) ==
  /\ ReplaceProxies(newProxyList)
  /\ snapshot' = [held |-> TRUE, sameArray |-> TRUE, list |-> newProxyList]

(* The process starts again: lines 38-39 of lib/proxies.js run anew. *)
Restart ==
  /\ proxyList' = LoadProxies(saved, diskOk)
  /\ currentProxyIndex' = 0
  /\ ioFailed' = ~diskOk
  /\ handed' = <<>>
  /\ lastCall' = Call("loadProxies", <<>>, "undefined")
  /\ UNCHANGED << saved, diskOk >>

(* The file system starts or stops refusing access to the database file. *)
DiskChange ==
  /\ diskOk' = ~diskOk
  /\ UNCHANGED << proxyList, currentProxyIndex, saved, ioFailed, lastCall,
                  handed >>

(* ------------------------------------------------------------------ *)
(* The administrator's chat handlers: bot.js 517-537 and 1543-1556    *)
(* ------------------------------------------------------------------ *)
AdminAddProxy(newProxy) ==
  /\ adminOps < MaxAdminOps
  /\ adminOps' = adminOps + 1
  /\ IF ~StartsWith(newProxy, "http://") /\ ~StartsWith(newProxy, "https://")
       THEN UNCHANGED << proxyList, currentProxyIndex, storeVars, handed >>
       ELSE AddProxy(newProxy)
  /\ UNCHANGED << keyVars, callerVars, procVars >>

AdminRemoveProxy(proxyIndex) ==
  /\ adminOps < MaxAdminOps
  /\ adminOps' = adminOps + 1
  /\ proxyIndex + 1 \in DOMAIN proxyList
  /\ RemoveProxy(proxyList[proxyIndex + 1])
  /\ UNCHANGED << keyVars, callerVars, procVars >>

(* bot.js 487-514: the administrator sends the text of a new API key. *)
(* Rewriting .env may fail, and then process.env is left as it was.   *)
AdminChangeApiKey(newApiKey) ==
  /\ IF Len(newApiKey) < MinKeyLength
       THEN UNCHANGED << envApiKey, dotEnv >>
       ELSE \E written \in BOOLEAN :
              IF written
                THEN /\ dotEnv' = newApiKey
                     /\ envApiKey' = newApiKey
                ELSE UNCHANGED << envApiKey, dotEnv >>
  /\ UNCHANGED << proxyList, currentProxyIndex, storeVars, handed, adminOps,
                  API_KEY, callerVars, procVars >>

(* ------------------------------------------------------------------ *)
(* The administrator's prompts and the text that answers them:        *)
(* bot.js 479-537 and 1407-1593                                       *)
(* ------------------------------------------------------------------ *)
(* the admin_settings button, also the Cancel button of the API key prompt *)
AdminSettingsAction(p) ==
  /\ Arrives
  /\ Says(p, IF IsAdmin(p) THEN "admin_settings" ELSE "admin_access_denied")
  /\ SessionFrame
  /\ UNCHANGED << session, sessionData, owned, upstream, listed, request,
                  procVars >>

(* the admin_proxy_menu button, also the Cancel button of the proxy prompt *)
AdminProxyMenuAction(p) ==
  /\ Arrives
  /\ Says(p, IF IsAdmin(p) THEN "manage_proxies" ELSE "admin_access_denied")
  /\ SessionFrame
  /\ UNCHANGED << session, sessionData, owned, upstream, listed, request,
                  procVars >>

(* what both prompt buttons do: userSessions[userId].step = step *)
OpenPrompt(p, step, text) ==
  /\ IF ~IsAdmin(p)
       THEN Says(p, "admin_access_denied") /\ UNCHANGED session
       ELSE IF session[p] = "undefined"
              THEN Says(p, "TypeError") /\ UNCHANGED session
              ELSE /\ session' = [session EXCEPT ![p] = step]
                   /\ Says(p, text)
  /\ SessionFrame
  /\ UNCHANGED << sessionData, owned, upstream, listed, request, procVars >>

(* the admin_api_menu button *)
AdminApiMenuAction(p) ==
  Arrives /\ OpenPrompt(p, "waiting_api_key", "send_api_key")

(* the admin_add_proxy button *)
AdminAddProxyAction(p) ==
  Arrives /\ OpenPrompt(p, "waiting_proxy_add", "send_proxy_address")

(* a text message while the step is waiting_api_key *)
ApiKeyText(p, text) ==
  /\ Arrives
  /\ session[p] = "waiting_api_key" /\ IsAdmin(p)
  /\ LET newApiKey == text IN
     IF Len(newApiKey) < MinKeyLength
       THEN /\ Says(p, "api_key_short")
            /\ UNCHANGED << session, envApiKey, dotEnv >>
       ELSE /\ \E written \in BOOLEAN :
                 IF written
                   THEN /\ dotEnv' = newApiKey
                        /\ envApiKey' = newApiKey
                        /\ Says(p, "api_key_updated")
                   ELSE /\ UNCHANGED << envApiKey, dotEnv >>
                        /\ Says(p, "error")
            /\ session' = [session EXCEPT ![p] = "null"]
  /\ UNCHANGED << proxyList, currentProxyIndex, storeVars, handed, adminOps,
                  API_KEY, snapshot, ADMIN_ID, sessionData, owned, upstream,
                  listed, request, procVars >>

(* a text message while the step is waiting_proxy_add *)
ProxyText(p, text) ==
  /\ Arrives
  /\ session[p] = "waiting_proxy_add" /\ IsAdmin(p)
  /\ LET newProxy == text IN
     IF ~StartsWith(newProxy, "http://") /\ ~StartsWith(newProxy, "https://")
       THEN /\ Says(p, "proxy_format_error")
            /\ UNCHANGED << proxyList, currentProxyIndex, storeVars, handed,
                            session >>
       ELSE /\ AddProxy(newProxy)
            /\ Says(p, IF Includes(proxyList, newProxy)
                         THEN "proxy_exists_error" ELSE "proxy_added")
            /\ session' = [session EXCEPT ![p] = "null"]
  /\ UNCHANGED << adminVars, snapshot, ADMIN_ID, sessionData, owned, upstream,
                  listed, request, procVars >>

(* a button of the list of proxies to remove *)
AdminDelProxyAction(p, proxyIndex) ==
  /\ Arrives
  /\ IF ~IsAdmin(p)
       THEN /\ Says(p, "admin_access_denied")
            /\ UNCHANGED << proxyList, currentProxyIndex, storeVars, handed >>
       ELSE /\ proxyIndex + 1 \in DOMAIN proxyList
            /\ RemoveProxy(proxyList[proxyIndex + 1])
            /\ Says(p, "proxy_removed_msg")
  /\ UNCHANGED << adminVars, snapshot, ADMIN_ID, session, sessionData, owned,
                  upstream, listed, request, procVars >>

(* ------------------------------------------------------------------ *)
(* Listing, viewing and deleting addresses: bot.js 217-237, 593-819   *)
(* and, for the administrator, 1134-1245                              *)
(* ------------------------------------------------------------------ *)
ListUserEmailsUnfiltered(userEmailIds, emails) ==
  [emails |-> emails, total |-> Len(emails)]

(* what listUserEmails makes of the provider's list: bot.js 225-235 *)
ListUserEmails(userEmailIds, emails) ==
  LET userEmailList ==
        SelectSeq(emails, LAMBDA email : email \in Range(userEmailIds)) IN
  [emails |-> userEmailList, total |-> Len(userEmailList)]

(* /list or the list_emails button *)
ListAction(p) ==
  /\ Arrives /\ pc[p] = "idle"
  /\ Prepare(p, "list_emails", "listUserEmails", << p >>, "undefined")
  /\ Says(p, "loading_emails")
  /\ SessionFrame
  /\ UNCHANGED << session, sessionData, owned, upstream, listed, procVars >>

(* ... and what follows the await; the filter of listUserEmails runs  *)
(* in the same slice as this, when the provider's answer is in.       *)
ListDone(p) ==
  /\ pc[p] = "done"
  /\ op[p] = "listUserEmails"
  /\ IF outcome[p].kind = "ok"
       THEN LET data == ListUserEmails(owned[p], upstream) IN
            /\ listed' = [listed EXCEPT ![p] = data]
            /\ IF data.total = 0
                 THEN Says(p, "no_emails") /\ UNCHANGED sessionData
                 ELSE IF session[p] = "undefined"
                        THEN Says(p, "error TypeError") /\ UNCHANGED sessionData
                        ELSE /\ sessionData' =
                                  [sessionData EXCEPT ![p].emails = data.emails]
                             /\ Says(p, "your_emails")
       ELSE Says(p, "error") /\ UNCHANGED << listed, sessionData >>
  /\ request' = [request EXCEPT ![p] = NoRequest]
  /\ Rearm(p)
  /\ SessionFrame
  /\ UNCHANGED << session, owned, upstream >>

(* a view_email button: userSessions[userId].emails?.[emailIndex] *)
ViewEmailAction(p, emailIndex) ==
  /\ Arrives /\ pc[p] = "idle"
  /\ IF session[p] = "undefined"
       THEN Says(p, "TypeError") /\ UNCHANGED request
       ELSE IF emailIndex + 1 \notin DOMAIN sessionData[p].emails
              THEN Says(p, "Email not found") /\ UNCHANGED request
              ELSE /\ Prepare(p, "view_email", "getMessages",
                              << sessionData[p].emails[emailIndex + 1] >>,
                              "undefined")
                   /\ Says(p, "loading_messages")
  /\ SessionFrame
  /\ UNCHANGED << session, sessionData, owned, upstream, listed, procVars >>

ViewEmailDone(p) ==
  /\ pc[p] = "done"
  /\ op[p] = "getMessages"
  /\ Says(p, IF outcome[p].kind = "ok" THEN "messages" ELSE "error")
  /\ request' = [request EXCEPT ![p] = NoRequest]
  /\ Rearm(p)
  /\ SessionFrame
  /\ UNCHANGED << session, sessionData, owned, upstream, listed >>

(* the Yes button of the delete confirmation *)
ConfirmDelEmailAction(p, emailIndex) ==
  /\ Arrives /\ pc[p] = "idle"
  /\ IF session[p] = "undefined"
       THEN Says(p, "TypeError") /\ UNCHANGED request
       ELSE IF emailIndex + 1 \notin DOMAIN sessionData[p].emails
              THEN Says(p, "Email not found") /\ UNCHANGED request
              ELSE /\ Prepare(p, "confirm_del_email", "deleteEmail",
                              << sessionData[p].emails[emailIndex + 1] >>, p)
                   /\ UNCHANGED reply
  /\ SessionFrame
  /\ UNCHANGED << session, sessionData, owned, upstream, listed, procVars >>

(* ... and what follows await deleteEmail(email.id):                   *)
(* removeEmailFromUser(userId, email.id)                               *)
ConfirmDelEmailDone(p) ==
  /\ pc[p] = "done"
  /\ op[p] = "deleteEmail"
  /\ request[p].handler = "confirm_del_email"
  /\ IF outcome[p].kind = "ok"
       THEN /\ upstream' = RemoveEmailFromUser(upstream, request[p].arg[1])
            /\ owned' = [owned EXCEPT
                           ![p] = RemoveEmailFromUser(@, request[p].arg[1])]
            /\ Says(p, "email_deleted")
       ELSE Says(p, "error") /\ UNCHANGED << upstream, owned >>
  /\ request' = [request EXCEPT ![p] = NoRequest]
  /\ Rearm(p)
  /\ SessionFrame
  /\ UNCHANGED << session, sessionData, listed >>

(* an admin_user button: the addresses of targetUserId, kept in the    *)
(* administrator's session                                             *)
AdminUserAction(p, targetUserId) ==
  /\ Arrives
  /\ IF ~IsAdmin(p)
       THEN Says(p, "admin_access_denied") /\ UNCHANGED << session, sessionData >>
       ELSE LET userEmails == owned[targetUserId] IN
            IF Len(userEmails) = 0
              THEN Says(p, "no_emails") /\ UNCHANGED << session, sessionData >>
              ELSE /\ session' =
                        [session EXCEPT ![p] = IF @ = "undefined" THEN "empty" ELSE @]
                   /\ sessionData' =
                        [sessionData EXCEPT
                           ![p] = [@ EXCEPT !.adminUserEmails = userEmails,
                                            !.adminTargetUserId = targetUserId]]
                   /\ Says(p, "user_emails")
  /\ SessionFrame
  /\ UNCHANGED << owned, upstream, listed, request, procVars >>

(* an admin_del_email button: the address is taken from the list kept  *)
(* in the administrator's session, the user from the button            *)
AdminDelEmailAction(p, targetUserId, emailIndex) ==
  /\ Arrives /\ pc[p] = "idle"
  /\ IF ~IsAdmin(p)
       THEN Says(p, "admin_access_denied") /\ UNCHANGED request
       ELSE LET userEmails == IF session[p] = "undefined"
                                THEN << >>
                                ELSE sessionData[p].adminUserEmails IN
            IF emailIndex + 1 \notin DOMAIN userEmails
              THEN Says(p, "Email not found") /\ UNCHANGED request
              ELSE /\ Prepare(p, "admin_del_email", "deleteEmail",
                              << userEmails[emailIndex + 1] >>, targetUserId)
                   /\ UNCHANGED reply
  /\ SessionFrame
  /\ UNCHANGED << session, sessionData, owned, upstream, listed, procVars >>

(* ... and what follows await deleteEmail(emailId):                    *)
(* removeEmailFromUser(targetUserId, emailId), then the list again     *)
AdminDelEmailDone(p) ==
  /\ pc[p] = "done"
  /\ op[p] = "deleteEmail"
  /\ request[p].handler = "admin_del_email"
  /\ IF outcome[p].kind = "ok"
       THEN LET emailId == request[p].arg[1]
                targetUserId == request[p].target
                remainingEmails == RemoveEmailFromUser(owned[targetUserId], emailId)
            IN
            /\ upstream' = RemoveEmailFromUser(upstream, emailId)
            /\ owned' = [owned EXCEPT ![targetUserId] = remainingEmails]
            /\ IF Len(remainingEmails) = 0
                 THEN Says(p, "email_deleted_admin") /\ UNCHANGED sessionData
                 ELSE IF session[p] = "undefined"
                        THEN Says(p, "error TypeError") /\ UNCHANGED sessionData
                        ELSE /\ Says(p, "email_deleted_admin")
                             /\ sessionData' =
                                  [sessionData EXCEPT
                                     ![p].adminUserEmails = remainingEmails]
       ELSE Says(p, "error") /\ UNCHANGED << upstream, owned, sessionData >>
  /\ request' = [request EXCEPT ![p] = NoRequest]
  /\ Rearm(p)
  /\ SessionFrame
  /\ UNCHANGED << session, listed >>

(* ------------------------------------------------------------------ *)
(* Specifications                                                     *)
(* ------------------------------------------------------------------ *)

(* One chat user at a time, every operation and every retry argument, *)
(* with the administrator changing the pool in between the slices.    *)
Solo == {"u1"}

Next ==
  \/ \E p \in Solo, o \in RetryOps, mr \in 1..defaultMaxRetries : Invoke(p, o, mr)
  \/ \E p \in Solo : GateWake(p)
  \/ \E p \in Solo, s \in Statuses : Respond(p, s)
  \/ \E p \in Solo : BackoffWake(p)
  \/ \E p \in Solo, o \in DirectOps : InvokeDirect(p, o)
  \/ \E p \in Solo, s \in Statuses : RespondDirect(p, s)
  \/ \E p \in Solo : Finish(p)
  \/ Tick
  \/ \E e \in Endpoints : AdminAddProxy(e)
  \/ \E k \in 0..(Len(proxyList) - 1) : AdminRemoveProxy(k)

Spec == Init /\ [][Next]_vars

(* Two chat users whose handlers interleave at their suspension       *)
(* points, each running one wrapped operation with the default        *)
(* arguments, over a stored list of at most two proxies.              *)
InitConc == Init /\ Len(proxyList) <= 2

NextConc ==
  \/ \E p \in Handlers, o \in RetryOps : Invoke(p, o, defaultMaxRetries)
  \/ \E p \in Handlers : GateWake(p)
  \/ \E p \in Handlers, s \in Statuses : Respond(p, s)
  \/ \E p \in Handlers : BackoffWake(p)
  \/ Tick

SpecConc == InitConc /\ [][NextConc]_vars

(* One chat user running any operation while the administrator       *)
(* changes the API key.                                               *)
NextKey ==
  \/ \E p \in Solo, o \in RetryOps : Invoke(p, o, defaultMaxRetries)
  \/ \E p \in Solo : GateWake(p)
  \/ \E p \in Solo, s \in Statuses : Respond(p, s)
  \/ \E p \in Solo : BackoffWake(p)
  \/ \E p \in Solo, o \in DirectOps : InvokeDirect(p, o)
  \/ \E p \in Solo, s \in Statuses : RespondDirect(p, s)
  \/ \E p \in Solo : Finish(p)
  \/ Tick
  \/ \E k \in TypedKeys : AdminChangeApiKey(k)

SpecKey == Init /\ [][NextKey]_vars

(* One wrapped operation of one chat user, run to its end.  Timers     *)
(* that are due fire, the clock moves on while a timer is pending, and *)
(* an upstream call that was issued is answered or fails.              *)
NextLive ==
  \/ \E p \in Solo, o \in RetryOps, mr \in 1..defaultMaxRetries : Invoke(p, o, mr)
  \/ \E p \in Solo : GateWake(p)
  \/ \E p \in Solo, s \in Statuses : Respond(p, s)
  \/ \E p \in Solo : BackoffWake(p)
  \/ Tick

Fairness ==
  /\ WF_vars(Tick)
  /\ \A p \in Solo :
       /\ WF_vars(GateWake(p))
       /\ WF_vars(BackoffWake(p))
       /\ WF_vars(\E s \in Statuses : Respond(p, s))

SpecLive == Init /\ [][NextLive]_vars /\ Fairness

(* One chat user going through the create-email dialogue and sending  *)
(* /cancel at any moment; what follows an await runs once the awaited  *)
(* promise has settled.                                                *)
NextCancel ==
  \/ \E p \in Solo : CreateCommand(p)
  \/ \E p \in Solo : CreateDone(p)
  \/ \E p \in Solo : DomainAction(p)
  \/ \E p \in Solo : PrefixText(p)
  \/ \E p \in Solo : ExpiryAction(p)
  \/ \E p \in Solo : Dispatch(p)
  \/ \E p \in Solo : ExpiryDone(p)
  \/ \E p \in Solo : Cancel(p)
  \/ \E p \in Solo : GateWake(p)
  \/ \E p \in Solo, s \in Statuses : Respond(p, s)
  \/ \E p \in Solo : BackoffWake(p)
  \/ Tick

SpecCancel ==
  /\ InitConc
  /\ [][NextCancel]_vars
  /\ Fairness
  /\ \A p \in Solo : WF_vars(CreateDone(p)) /\ WF_vars(ExpiryDone(p))

(* The proxy module on its own: any caller, any order of calls. *)
ReplacementLists ==
  { <<>>, << "http://p2:80", "http://p1:80" >>, << "http://p3:80", "http://p1:80", "http://p2:80" >>, << "http://p1:80", "http://p2:80", "http://p1:80" >> }

PoolGetNextProxy == GetNextProxy /\ UNCHANGED << adminVars, callerVars, procVars >>
PoolAddProxy(e) == AddProxy(e) /\ UNCHANGED << adminVars, callerVars, procVars >>
PoolRemoveProxy(e) == RemoveProxy(e) /\ UNCHANGED << adminVars, callerVars, procVars >>
PoolReplaceProxies(l) == ReplaceProxies(l) /\ UNCHANGED << adminVars, callerVars, procVars >>
PoolResetProxyIndex == ResetProxyIndex /\ UNCHANGED << adminVars, callerVars, procVars >>
PoolRestart == Restart /\ UNCHANGED << adminVars, callerVars, procVars >>
PoolDiskChange == DiskChange /\ UNCHANGED << adminVars, callerVars, procVars >>

PoolGetAllProxies ==
  GetAllProxies /\ UNCHANGED << adminVars, session, owned, userVars, procVars >>
PoolCallerPop ==
  CallerPop /\ UNCHANGED << adminVars, session, owned, userVars, procVars >>
PoolCallerSetFirst(e) ==
  CallerSetFirst(e) /\ UNCHANGED << adminVars, session, owned, userVars, procVars >>

NextPool ==
  \/ PoolGetNextProxy
  \/ \E e \in Endpoints : PoolAddProxy(e)
  \/ \E e \in Endpoints : PoolRemoveProxy(e)
  \/ \E l \in ReplacementLists : PoolReplaceProxies(l)
  \/ PoolResetProxyIndex
  \/ PoolRestart
  \/ PoolDiskChange

(* started from a stored list of at most two proxies *)
InitPool == Init /\ Len(proxyList) <= 2

SpecPool == InitPool /\ [][NextPool]_vars

(* Texts of any shape reaching addProxy, from the administrator's chat *)
(* and from a caller of the module.                                   *)
NextText ==
  \/ \E text \in TypedTexts : AdminAddProxy(text)
  \/ \E text \in TypedTexts : PoolAddProxy(text)
  \/ \E text \in TypedTexts : PoolRemoveProxy(text)
  \/ PoolGetNextProxy

SpecText == InitPool /\ [][NextText]_vars

(* A caller that lists the pool and changes the list it was given,    *)
(* between additions, removals and rotations.                         *)
NextSnap ==
  \/ PoolGetNextProxy
  \/ \E e \in Endpoints : PoolAddProxy(e)
  \/ \E e \in Endpoints : PoolRemoveProxy(e)
  \/ PoolGetAllProxies
  \/ PoolCallerPop
  \/ \E e \in Endpoints : PoolCallerSetFirst(e)

SpecSnap == InitPool /\ [][NextSnap]_vars

(* ------------------------------------------------------------------ *)
(* Properties                                                         *)
(* ------------------------------------------------------------------ *)

(* C1: across all handlers, no attempt of retryWithBackoff starts      *)
(* (records lastRequestTime and calls the operation) less than         *)
(* rateLimitDelay after the start of the previous attempt.             *)
C1_AttemptSpacing ==
  [][\A p \in Handlers :
       gates'[p] = gates[p] + 1 => sinceLast >= rateLimitDelay]_vars

(* C2: with no other caller and no pool change, attempt j of a         *)
(* proxy-routed operation selects the endpoint at position             *)
(* (c + j - 1) mod N, c being the cursor when the operation began; with *)
(* pool [p1, p2], cursor 0 and replies 429, 200 the attempts select p1  *)
(* then p2, one backoff of initialDelay is slept and the 200 payload    *)
(* is returned.                                                         *)
C2_SuccessiveEndpoints ==
  \A p \in Handlers :
    (op[p] \in ProxyOps /\ adminOps = 0 /\ Len(proxyList) >= 1) =>
      /\ \A j \in 1..Len(used[p]) :
           used[p][j] =
             proxyList[((startIndex[p] + j - 1) % Len(proxyList)) + 1]
      /\ (proxyList = <<"http://p1:80", "http://p2:80">> /\ startIndex[p] = 0
            /\ replies[p] = <<429, 200>>) =>
           /\ used[p] = <<"http://p1:80", "http://p2:80">>
           /\ sleeps[p] = << Num(initialDelay) >>
           /\ outcome[p] = Returned(<< p, 2 >>)

(* C3: N + 1 consecutive getNextProxy calls on a pool of N >= 1        *)
(* endpoints return the endpoints in insertion order from some         *)
(* position on, each once, and then the first of them again.           *)
C3_RoundRobin ==
  (Len(proxyList) >= 1 /\ Len(handed) = Len(proxyList) + 1) =>
    \E c \in 0..(Len(proxyList) - 1) :
      \A j \in 1..(Len(proxyList) + 1) :
        handed[j] = proxyList[((c + j - 1) % Len(proxyList)) + 1]

(* C4: a wrapped operation never makes more calls than                 *)
(* max(maxRetries, proxyCount) (maxRetries with no proxy), and a 429    *)
(* reaches its caller after exactly that many calls; 5 proxies and      *)
(* maxRetries 3 give 5 calls.                                           *)
C4_AttemptBudget ==
  \A p \in Handlers :
    op[p] \in RetryOps =>
      LET budget == IF totalProxies[p] > 0
                      THEN Max(maxRetries[p], totalProxies[p])
                      ELSE maxRetries[p]
      IN /\ Len(used[p]) <= budget
         /\ (pc[p] = "done" /\ outcome[p].kind = "err" /\ outcome[p].status = 429)
              => Len(used[p]) = budget
         /\ (totalProxies[p] = 5 /\ maxRetries[p] = 3
               /\ pc[p] = "done" /\ outcome[p].kind = "err"
               /\ outcome[p].status = 429) => Len(used[p]) = 5

C4_Witness ==
  \E p \in Handlers :
    /\ pc[p] = "done" /\ outcome[p] = Threw(429)
    /\ totalProxies[p] = 5 /\ maxRetries[p] = 3
    /\ replies[p] = <<429, 429, 429, 429, 429>>

(* C5: with no proxy and maxRetries 3, at most 3 calls are made, and   *)
(* once the third call has been answered the operation is over: a 429   *)
(* answer to it is thrown to the caller as it is.                       *)
C5_EmptyPoolExhaustion ==
  \A p \in Handlers :
    (op[p] \in RetryOps /\ totalProxies[p] = 0 /\ maxRetries[p] = 3) =>
      /\ Len(used[p]) <= 3
      /\ Len(replies[p]) = 3 =>
           /\ pc[p] = "done"
           /\ replies[p][3] = 429 => outcome[p] = Threw(429)

C5_Witness ==
  \E p \in Handlers :
    /\ op[p] \in RetryOps /\ totalProxies[p] = 0 /\ maxRetries[p] = 3
    /\ replies[p] = <<429, 429, 429>>
    /\ pc[p] = "done" /\ outcome[p] = Threw(429)

(* C6: with no proxy, the k-th backoff sleep of an operation (after    *)
(* attempt i = k - 1) lasts initialDelay * 2^i.                         *)
C6_EmptyPoolBackoff ==
  \A p \in Handlers :
    (op[p] \in RetryOps /\ totalProxies[p] = 0) =>
      \A k \in 1..Len(sleeps[p]) :
        sleeps[p][k] = Num(initialDelay * Pow2(k - 1))

(* C7: with P > 0 proxies, the k-th backoff sleep (after attempt       *)
(* i = k - 1) lasts initialDelay * 2^floor(i / P), so with 5 proxies    *)
(* and maxRetries 3 every sleep lasts initialDelay; a sleep only        *)
(* follows an attempt, and none follows the last attempt.               *)
C7_ProxyCycleBackoff ==
  \A p \in Handlers :
    (op[p] \in RetryOps /\ totalProxies[p] > 0) =>
      /\ \A k \in 1..Len(sleeps[p]) :
           /\ sleeps[p][k] =
                Num(initialDelay * Pow2((k - 1) \div totalProxies[p]))
           /\ (totalProxies[p] = 5 /\ maxRetries[p] = 3)
                => sleeps[p][k] = Num(initialDelay)
      /\ Len(sleeps[p]) <= Len(replies[p])
      /\ Len(sleeps[p]) <= Max(maxRetries[p], totalProxies[p]) - 1
      /\ pc[p] = "done" => Len(sleeps[p]) = Len(used[p]) - 1

C7_Witness ==
  \E p \in Handlers :
    /\ op[p] \in RetryOps /\ totalProxies[p] = 5 /\ maxRetries[p] = 3
    /\ Len(sleeps[p]) = 4 /\ pc[p] = "done"

(* C8: an operation that returns a result after k calls has passed the *)
(* gate k times and slept k - 1 backoffs, its first k - 1 calls were    *)
(* answered 429, and what it returns is the payload of call k.          *)
C8_SuccessOnAttemptK ==
  \A p \in Handlers :
    (op[p] \in RetryOps /\ pc[p] = "done" /\ outcome[p].kind = "ok") =>
      LET k == Len(replies[p]) IN
      /\ replies[p][k] = 200
      /\ \A j \in 1..(k - 1) : replies[p][j] = 429
      /\ Len(used[p]) = k
      /\ gates[p] = k
      /\ Len(sleeps[p]) = k - 1
      /\ outcome[p] = Returned(<< p, k >>)

C8_Witness ==
  \E p \in Handlers :
    /\ op[p] \in RetryOps /\ pc[p] = "done"
    /\ replies[p] = <<429, 429, 200>>
    /\ gates[p] = 3 /\ Len(sleeps[p]) = 2
    /\ outcome[p] = Returned(<< p, 3 >>)

(* C9: a call answered by an error other than 429 is the last call of  *)
(* its operation: the operation is over, has thrown that error, and     *)
(* slept no backoff after it.                                           *)
C9_OtherErrorPropagates ==
  \A p \in Handlers :
    op[p] \in RetryOps =>
      \A j \in 1..Len(replies[p]) :
        replies[p][j] \notin {200, 429} =>
          /\ j = Len(used[p])
          /\ pc[p] = "done"
          /\ outcome[p] = Threw(replies[p][j])
          /\ Len(sleeps[p]) = j - 1

C9_Witness ==
  \E p \in Handlers :
    /\ op[p] \in RetryOps /\ actualMaxRetries[p] = 3
    /\ replies[p] = << 500 >>
    /\ pc[p] = "done" /\ outcome[p] = Threw(500)

(* C10 as stated: whatever the operation, a failure whose cause is an  *)
(* upstream 429 reaches the caller only after max(3, proxyCount)        *)
(* calls (3 with no proxy).                                             *)
C10_AllOperationsExhaust ==
  \A p \in Handlers :
    (op[p] \in Ops /\ pc[p] = "done" /\ outcome[p].kind = "err"
       /\ replies[p][Len(replies[p])] = 429) =>
      Len(used[p]) =
        (IF op[p] \in RetryOps
           THEN Max(maxRetries[p], totalProxies[p])
           ELSE Max(defaultMaxRetries, Len(proxyList)))

(* C10, amended: for the operations wrapped in retryWithBackoff a      *)
(* failure whose cause is an upstream 429 reaches the caller only after *)
(* every call of the budget was made and answered 429; the operations   *)
(* that call axios directly fail after their one call.                  *)
C10_WrappedOperationsExhaust ==
  \A p \in Handlers :
    (op[p] \in Ops /\ pc[p] = "done" /\ outcome[p].kind = "err"
       /\ replies[p][Len(replies[p])] = 429) =>
      IF op[p] \in RetryOps
        THEN /\ Len(replies[p]) = Max(maxRetries[p], totalProxies[p])
             /\ \A j \in 1..Len(replies[p]) : replies[p][j] = 429
        ELSE Len(replies[p]) = 1

C10_Witness ==
  \E p \in Handlers :
    /\ op[p] = "getMessages" /\ maxRetries[p] = 3 /\ totalProxies[p] = 2
    /\ pc[p] = "done" /\ outcome[p] = Threw(429)
    /\ replies[p] = <<429, 429, 429>>

(* ------------------------------------------------------------------ *)
(* The proxy pool and the API key                                     *)
(* ------------------------------------------------------------------ *)

(* C11: whenever the pool is not empty the cursor is a valid index,    *)
(* 0 <= cursor < size, and getNextProxy returns an endpoint that is in *)
(* the pool, never undefined.                                          *)
C11_CursorValid ==
  Len(proxyList) > 0 =>
    /\ currentProxyIndex \in 0..(Len(proxyList) - 1)
    /\ Includes(proxyList, GetNextProxyValue(proxyList, currentProxyIndex))

(* C12: after any loads, additions, removals and replacements the pool *)
(* holds no endpoint twice.                                            *)
C12_NoDuplicates ==
  \A a, b \in DOMAIN proxyList : proxyList[a] = proxyList[b] => a = b

(* C13: every upstream request carries the API key the administrator   *)
(* had accepted last, that is the value of process.env.API_KEY, with no *)
(* restart in between.                                                 *)
C13_RequestsCarryCurrentKey ==
  [][\A p \in Handlers :
       Len(used'[p]) = Len(used[p]) + 1 => sentKey'[p] = envApiKey]_vars

(* C14: the proxies handed out since the last pool change, to          *)
(* whichever callers, are endpoints of the pool and follow one another *)
(* in the pool's cyclic order, one cursor step each.                   *)
C14_HandedInRotation ==
  Len(proxyList) >= 1 =>
    /\ \A j \in DOMAIN handed : Includes(proxyList, handed[j])
    /\ \A j \in 1..(Len(handed) - 1) :
         \E k \in DOMAIN proxyList :
           /\ handed[j] = proxyList[k]
           /\ handed[j + 1] = proxyList[(k % Len(proxyList)) + 1]

(* C15: one retryWithBackoff invocation has at most one upstream call  *)
(* in flight, and it issues a call only when every earlier call of the *)
(* invocation has settled, the latest of them with a failure that was  *)
(* followed by a backoff sleep, and no timer of the handler is pending. *)
C15_OneCallAtATime ==
  [][\A p \in Handlers :
       /\ Len(used'[p]) - Len(replies'[p]) \in {0, 1}
       /\ Len(used'[p]) = Len(used[p]) + 1 =>
            /\ Len(replies[p]) = Len(used[p])
            /\ timer[p] = 0
            /\ Len(used[p]) > 0 =>
                 /\ replies[p][Len(replies[p])] # 200
                 /\ Len(sleeps[p]) = Len(used[p])]_vars

C15_Witness ==
  \E p \in Handlers :
    /\ pc[p] = "net" /\ Len(used[p]) = 2
    /\ replies[p] = <<429>> /\ Len(sleeps[p]) = 1

(* C16: as long as no read or write of the database file has failed,   *)
(* the file holds the in-memory list, and a restart then loads exactly  *)
(* the list the process had, in the same order, with the cursor at 0.   *)
C16_PersistedEqualsMemory ==
  /\ [](~ioFailed => saved = proxyList)
  /\ [][(PoolRestart /\ ~ioFailed /\ diskOk) =>
          (proxyList' = proxyList /\ currentProxyIndex' = 0)]_vars

C16_Witness ==
  /\ lastCall.name = "loadProxies" /\ ~ioFailed
  /\ proxyList = << "http://p2:80", "http://p1:80", "http://p3:80" >> /\ saved = proxyList
  /\ currentProxyIndex = 0

(* C17: when the write of the database file fails inside addProxy,     *)
(* removeProxy or replaceProxies, the list is changed in memory all the *)
(* same, the call returns as it does on success (true, true, nothing)  *)
(* and getProxyCount reports the changed list; the file stays as it was. *)
C17_FailedWriteKeepsMutation ==
  [][~diskOk =>
       /\ \A e \in Endpoints :
            (PoolAddProxy(e) /\ ~Includes(proxyList, e)) =>
              /\ proxyList' = Append(proxyList, e)
              /\ GetProxyCount' = GetProxyCount + 1
              /\ lastCall'.ret = "true"
              /\ saved' = saved
       /\ \A e \in Endpoints :
            (PoolRemoveProxy(e) /\ Includes(proxyList, e)) =>
              /\ GetProxyCount' = GetProxyCount - 1
              /\ lastCall'.ret = "true"
              /\ saved' = saved
       /\ \A l \in ReplacementLists :
            PoolReplaceProxies(l) =>
              /\ proxyList' = l
              /\ lastCall'.ret = "undefined"
              /\ saved' = saved]_vars

C17_Witness ==
  /\ ~diskOk
  /\ lastCall = Call("addProxy", << "http://p3:80" >>, "true")
  /\ Includes(proxyList, "http://p3:80") /\ ~Includes(saved, "http://p3:80")

(* C18: addProxy of an endpoint that is in the pool returns false and  *)
(* leaves the list, its size, the cursor and the file as they were;     *)
(* addProxy of an endpoint that is not in the pool appends it at the end *)
(* and returns true.                                                   *)
C18_AddProxyIdempotent ==
  [][\A e \in Endpoints :
       PoolAddProxy(e) =>
         IF Includes(proxyList, e)
           THEN /\ lastCall'.ret = "false"
                /\ proxyList' = proxyList
                /\ GetProxyCount' = GetProxyCount
                /\ currentProxyIndex' = currentProxyIndex
                /\ saved' = saved
           ELSE /\ lastCall'.ret = "true"
                /\ proxyList' = proxyList \o << e >>]_vars

C18_Witness ==
  /\ lastCall = Call("addProxy", << "http://p1:80" >>, "false")
  /\ proxyList = << "http://p1:80", "http://p2:80" >>

(* C19: replaceProxies(newList) makes newList the pool and puts the     *)
(* cursor at 0 wherever it was, so that, newList not being empty, the   *)
(* next getNextProxy returns the first endpoint of newList.            *)
C19_ReplaceResetsCursor ==
  [][/\ \A l \in ReplacementLists :
          PoolReplaceProxies(l) => (proxyList' = l /\ currentProxyIndex' = 0)
     /\ (/\ PoolGetNextProxy
         /\ handed = <<>>
         /\ lastCall.name = "replaceProxies"
         /\ lastCall.arg # <<>>) => handed' = << lastCall.arg[1] >>]_vars

C19_Witness ==
  /\ lastCall.name = "replaceProxies"
  /\ lastCall.arg = << "http://p3:80", "http://p1:80", "http://p2:80" >>
  /\ handed = << "http://p3:80" >>

(* C20: removeProxy(e) on a pool that holds e takes out the first e and *)
(* nothing else, keeps the order of the rest, writes the file and       *)
(* returns true; on a pool without e it returns false and leaves the     *)
(* list, the cursor and the file as they were.                          *)
C20_RemoveFirstOccurrence ==
  [][\A e \in Endpoints :
       PoolRemoveProxy(e) =>
         IF Includes(proxyList, e)
           THEN /\ \E k \in DOMAIN proxyList :
                     /\ proxyList[k] = e
                     /\ \A m \in 1..(k - 1) : proxyList[m] # e
                     /\ proxyList' =
                          [j \in 1..(Len(proxyList) - 1) |->
                             IF j < k THEN proxyList[j] ELSE proxyList[j + 1]]
                /\ diskOk => saved' = proxyList'
                /\ lastCall'.ret = "true"
           ELSE /\ lastCall'.ret = "false"
                /\ proxyList' = proxyList
                /\ currentProxyIndex' = currentProxyIndex
                /\ saved' = saved]_vars

C20_Witness ==
  /\ lastCall = Call("removeProxy", << "http://p1:80" >>, "true")
  /\ proxyList = << "http://p2:80", "http://p1:80" >>

(* C21: getNextProxy on an empty pool returns null and leaves the      *)
(* cursor where it was, however the pool came to be empty.             *)
C21_EmptyPoolReturnsNull ==
  [][(PoolGetNextProxy /\ Len(proxyList) = 0) =>
       /\ handed'[Len(handed')] = "null"
       /\ currentProxyIndex' = currentProxyIndex]_vars

C21_Witness ==
  /\ proxyList = <<>> /\ lastCall.name = "removeProxy"
  /\ handed = << "null" >> /\ currentProxyIndex = 1

(* C25: resetProxyIndex puts the cursor at 0 and leaves the list and   *)
(* the database file as they were.                                     *)
C25_ResetKeepsList ==
  [][PoolResetProxyIndex =>
       /\ currentProxyIndex' = 0
       /\ proxyList' = proxyList
       /\ saved' = saved]_vars

C25_Witness ==
  /\ lastCall.name = "resetProxyIndex"
  /\ currentProxyIndex = 0 /\ handed = <<>>
  /\ proxyList = << "http://p3:80", "http://p1:80", "http://p2:80" >> /\ saved = proxyList

(* ------------------------------------------------------------------ *)
(* Errors, the gate and the budget of one invocation                  *)
(* ------------------------------------------------------------------ *)

(* C24: an operation whose upstream call was answered with an HTTP     *)
(* status other than 2xx and 429 ends by throwing an error that        *)
(* carries that status.                                                *)
C24_ErrorCarriesStatus ==
  \A p \in Handlers :
    (pc[p] = "done" /\ Len(replies[p]) > 0
       /\ replies[p][Len(replies[p])] \notin {200, 429, NoResponse}) =>
      /\ outcome[p].kind = "err"
      /\ outcome[p].status = replies[p][Len(replies[p])]

(* C27: with one invocation at a time, whenever an attempt starts, at  *)
(* least rateLimitDelay has passed since the start recorded for the    *)
(* attempt before it, however short the backoff sleep was, and the     *)
(* start is recorded (no time since the last request) in the slice     *)
(* that issues the upstream call.                                      *)
C27_GateRecheckedPerAttempt ==
  [][\A p \in Solo :
       gates'[p] = gates[p] + 1 =>
         /\ sinceLast >= rateLimitDelay
         /\ sinceLast' = 0
         /\ Len(used'[p]) = Len(used[p]) + 1
         /\ Len(used'[p]) = gates'[p]]_vars

(* the second attempt waits at the gate after a backoff of 1000 ms *)
C27_Witness ==
  \E p \in Solo :
    /\ pc[p] = "gate" /\ gates[p] = 1
    /\ sleeps[p] = << Num(initialDelay) >>
    /\ timer[p] = rateLimitDelay - initialDelay

(* C29: an invocation during which the administrator changed the pool  *)
(* keeps the budget and the delays of the proxy count it read when it  *)
(* began: it makes at most that budget of calls, a 429 reaches the     *)
(* caller after exactly that many, and its k-th sleep is the one that  *)
(* count gives.                                                        *)
C29_BudgetFixedAtStart ==
  \A p \in Handlers :
    (op[p] \in RetryOps /\ Len(proxyList) # totalProxies[p]) =>
      /\ actualMaxRetries[p] = ActualMaxRetries(maxRetries[p], totalProxies[p])
      /\ Len(used[p]) <= actualMaxRetries[p]
      /\ (pc[p] = "done" /\ outcome[p].kind # "ok") =>
           /\ outcome[p].kind = "err"
           /\ outcome[p].status = 429 => Len(used[p]) = actualMaxRetries[p]
      /\ \A k \in DOMAIN sleeps[p] :
           sleeps[p][k] = BackoffDelay(initialDelay, k - 1, totalProxies[p])

C29_Witness ==
  \E p \in Handlers :
    /\ op[p] \in RetryOps /\ maxRetries[p] = 3
    /\ totalProxies[p] = 1 /\ Len(proxyList) = 2
    /\ sleeps[p] = << Num(initialDelay), Num(2 * initialDelay) >>
    /\ pc[p] = "done" /\ outcome[p] = Threw(429)

(* C30: listEmails, getMessageDetail, deleteEmail and deleteMessage    *)
(* make one upstream call per invocation, with no gate and no backoff, *)
(* and neither issuing the call nor its answer, good or bad, changes   *)
(* lastRequestTime or the proxy cursor.                                *)
C30_DirectOperationsFrame ==
  /\ [](\A p \in Handlers :
          op[p] \in DirectOps =>
            /\ Len(used[p]) = 1 /\ Len(replies[p]) <= 1
            /\ gates[p] = 0 /\ sleeps[p] = <<>>
            /\ pc[p] = "done" <=> Len(replies[p]) = 1)
  /\ [][\A p \in Handlers :
          /\ \A o \in DirectOps :
               InvokeDirect(p, o) =>
                 (sinceLast' = sinceLast
                    /\ currentProxyIndex' = currentProxyIndex)
          /\ \A st \in Statuses :
               RespondDirect(p, st) =>
                 (sinceLast' = sinceLast
                    /\ currentProxyIndex' = currentProxyIndex)]_vars

(* a direct operation ran to its failure right after a wrapped attempt *)
C30_Witness ==
  \E p \in Handlers :
    /\ op[p] = "deleteMessage" /\ pc[p] = "done"
    /\ used[p] = << "unrouted" >> /\ replies[p] = << 429 >>
    /\ sinceLast = 0 /\ currentProxyIndex = 1

(* C28: an invocation with a budget of at least one call comes to its  *)
(* end, provided its timers fire and its upstream calls settle; by     *)
(* then it has made at most its budget of calls, and it ends either by *)
(* returning the payload of its last call, which succeeded, or by      *)
(* throwing the error of its last call, never by returning nothing.    *)
C28_Terminates ==
  /\ \A p \in Solo : (pc[p] \in {"gate", "net", "backoff"}) ~> (pc[p] = "done")
  /\ [](\A p \in Solo :
          pc[p] = "done" =>
            LET n == Len(used[p]) IN
            /\ 1 <= n /\ n <= actualMaxRetries[p] /\ Len(replies[p]) = n
            /\ \/ /\ replies[p][n] = 200
                  /\ outcome[p] = Returned(Response(p, n).data)
               \/ /\ replies[p][n] # 200
                  /\ outcome[p] = Threw(replies[p][n]))

C28_Witness ==
  \E p \in Solo :
    /\ op[p] = "listUserEmails" /\ maxRetries[p] = 2 /\ totalProxies[p] = 0
    /\ pc[p] = "done" /\ replies[p] = << 429, 429 >>
    /\ outcome[p] = Threw(429)

(* C22: getAllProxies hands out the elements of the pool in an array   *)
(* of its own: whatever the caller then writes into that array, the     *)
(* pool's list, its size and the cursor stay as they were.             *)
C22_SnapshotIsACopy ==
  [][/\ PoolGetAllProxies => snapshot'.list = proxyList
     /\ (PoolCallerPop \/ \E e \in Endpoints : PoolCallerSetFirst(e)) =>
          /\ proxyList' = proxyList
          /\ GetProxyCount' = GetProxyCount
          /\ currentProxyIndex' = currentProxyIndex]_vars

(* the caller emptied and overwrote its array, the pool is untouched *)
C22_Witness ==
  /\ snapshot.held /\ snapshot.list = << "http://p3:80" >>
  /\ proxyList = << "http://p1:80", "http://p2:80" >> /\ currentProxyIndex = 1

(* C23: every endpoint of the pool is well formed, that is a scheme    *)
(* (http:// or https://), a host and a port: addProxy returns false    *)
(* for any other text and leaves the pool as it was.                   *)
C23_OnlyWellFormedEndpoints ==
  \A k \in DOMAIN proxyList :
    LET text == proxyList[k] IN
    \E scheme \in {"http://", "https://"} :
      /\ StartsWith(text, scheme)
      /\ \E c \in (Len(scheme) + 2)..(Len(text) - 1) : SubSeq(text, c, c) = ":"

PoolCallerReplaceProxies(l) ==
  CallerReplaceProxies(l) /\ UNCHANGED << adminVars, session, owned, userVars, procVars >>

NextAlias ==
  \/ \E l \in ReplacementLists : PoolCallerReplaceProxies(l)
  \/ PoolCallerPop
  \/ \E e \in Endpoints : PoolCallerSetFirst(e)
  \/ PoolGetNextProxy

SpecAlias == InitPool /\ [][NextAlias]_vars

(* C38: once replaceProxies(newList) has returned, the pool no longer  *)
(* depends on the caller's list: what the caller then writes into      *)
(* newList changes neither the pool's list nor getProxyCount, and the  *)
(* persisted list goes on matching the pool.                           *)
C38_ReplaceDetachesCallerList ==
  /\ [](saved = proxyList)
  /\ [][(PoolCallerPop \/ \E e \in Endpoints : PoolCallerSetFirst(e)) =>
          /\ proxyList' = proxyList
          /\ GetProxyCount' = GetProxyCount]_vars

(* ------------------------------------------------------------------ *)
(* Claims about the chat dialogues                                    *)
(* ------------------------------------------------------------------ *)
(* C36: the creation flow is ordered domain_selection, email_prefix,   *)
(* expiry_time, done: generateEmail is called only when the user's     *)
(* session is at step expiry_time, with the prefix and the domain      *)
(* chosen in that flow, so that pressing an expiry button again after  *)
(* the flow is complete, or after /cancel, creates nothing.            *)
C36_CreationFollowsFlow ==
  [][\A p \in Solo :
       (Dispatch(p) /\ request[p].op = "generateEmail") =>
         /\ session[p] = "expiry_time"
         /\ request[p].arg = << "prefix", "domain" >>]_vars

(* ------------------------------------------------------------------ *)
(* The administrator's settings menus on their own                    *)
(* ------------------------------------------------------------------ *)
PromptTexts == TypedTexts \cup TypedKeys

NextPrompt ==
  \/ \E p \in Handlers : Start(p)
  \/ \E p \in Handlers : BackMenu(p)
  \/ \E p \in Handlers : AdminSettingsAction(p)
  \/ \E p \in Handlers : AdminProxyMenuAction(p)
  \/ \E p \in Handlers : AdminApiMenuAction(p)
  \/ \E p \in Handlers : AdminAddProxyAction(p)
  \/ \E p \in Handlers, text \in PromptTexts : ApiKeyText(p, text)
  \/ \E p \in Handlers, text \in PromptTexts : ProxyText(p, text)

SpecPrompt == InitPool /\ [][NextPrompt]_vars

(* C31: once the administrator has opened the add-proxy or the         *)
(* change-API-key prompt and pressed the prompt's Cancel button, which *)
(* shows the proxy menu or the settings menu again, no input step is   *)
(* pending: a text sent then changes neither the pool nor the API key. *)
C31_CancelClearsPrompt ==
  /\ [](\A p \in Handlers :
          /\ reply[p] = "manage_proxies" => session[p] # "waiting_proxy_add"
          /\ reply[p] = "admin_settings" => session[p] # "waiting_api_key")
  /\ [][\A p \in Handlers, text \in PromptTexts :
          \/ reply[p] = "manage_proxies" /\ ProxyText(p, text)
          \/ reply[p] = "admin_settings" /\ ApiKeyText(p, text)
          => UNCHANGED << proxyList, saved, envApiKey, dotEnv >>]_vars

(* ------------------------------------------------------------------ *)
(* Two chat users, one of them the administrator, and their addresses *)
(* ------------------------------------------------------------------ *)
(* addresses a user may hold at a time *)
MaxOwned == 1

(* users.json as earlier runs may have left it *)
StoredUsers ==
  { [p \in Handlers |-> << >>],
    [p \in Handlers |-> << << p, 0 >> >>] }

(* The provider holds the recorded addresses and one that was made    *)
(* with the same API key outside this bot.                            *)
InitUsers ==
  /\ Loaded
  /\ saved = << >>
  /\ owned \in StoredUsers
  /\ upstream = << << "elsewhere", 0 >> >> \o owned["u1"] \o owned["u2"]

InitOwn == InitUsers /\ ADMIN_ID = 1

(* no provider call of any user is under way *)
Quiet == \A q \in Handlers : pc[q] = "idle"

(* The administrator browsing and deleting the users' addresses, and  *)
(* the other user pressing the same buttons.                           *)
NextAdmin ==
  \/ \E p, t \in Handlers : AdminUserAction(p, t)
  \/ \E p, t \in Handlers, k \in 0..1 : AdminDelEmailAction(p, t, k)
  \/ \E p \in Handlers : Dispatch(p)
  \/ \E p \in Handlers, st \in Statuses : RespondDirect(p, st)
  \/ \E p \in Handlers : AdminDelEmailDone(p)

SpecAdmin == InitOwn /\ [][NextAdmin]_vars

(* C35: an admin_del_email action for target user T and index i       *)
(* deletes upstream the address that is entry i of T's ownership       *)
(* record and never an address owned by a user other than T, in any    *)
(* order in which the administrator browsed the users before.          *)
C35_AdminDeletesTargetsEntry ==
  [][\A p, t \in Handlers, k \in 0..1 :
       (AdminDelEmailAction(p, t, k) /\ request'[p].op = "deleteEmail") =>
         /\ k + 1 \in DOMAIN owned[t]
         /\ request'[p].arg = << owned[t][k + 1] >>
         /\ \A u \in Handlers \ {t} : request'[p].arg[1] \notin Range(owned[u])]_vars
(* One user creating, listing and deleting addresses next to the      *)
(* stored addresses of the other user, one call of the provider at a   *)
(* time; the clock moves while a call is under way.                    *)
NextOwn ==
  \/ \E p \in Solo : Start(p)
  \/ \E p \in Solo : Quiet /\ Len(owned[p]) < MaxOwned /\ ExpiryAction(p)
  \/ \E p \in Solo : ExpiryDone(p)
  \/ \E p \in Solo : Quiet /\ ListAction(p)
  \/ \E p \in Solo : ListDone(p)
  \/ \E p \in Solo, k \in 0..1 : Quiet /\ ConfirmDelEmailAction(p, k)
  \/ \E p \in Solo : ConfirmDelEmailDone(p)
  \/ \E p \in Solo : Dispatch(p)
  \/ \E p \in Solo : GateWake(p)
  \/ \E p \in Solo, st \in Statuses : Respond(p, st)
  \/ \E p \in Solo, st \in Statuses : RespondDirect(p, st)
  \/ \E p \in Solo : BackoffWake(p)
  \/ ~Quiet /\ Tick

SpecOwn == InitOwn /\ [][NextOwn]_vars

C34_ListOnlyOwned ==
  [][\A p \in Handlers :
       (ListDone(p) /\ outcome[p].kind = "ok") =>
         /\ \A k \in DOMAIN listed'[p].emails :
              /\ listed'[p].emails[k] \in Range(owned[p])
              /\ listed'[p].emails[k] \in Range(upstream)
              /\ listed'[p].emails[k][1] = p
         /\ listed'[p].total = Len(listed'[p].emails)]_vars

(* a listing that left out the other user's address and the foreign one *)
C34_Witness ==
  \E p \in Solo :
    /\ reply[p] = "your_emails"
    /\ listed[p].total = 1
    /\ \E q \in Handlers \ {p} : owned[q] # << >> /\ Range(owned[q]) \subseteq Range(upstream)
    /\ << "elsewhere", 0 >> \in Range(upstream)

(* ------------------------------------------------------------------ *)
(* Users who are not the administrator pressing the administrator's   *)
(* buttons                                                             *)
(* ------------------------------------------------------------------ *)

(* ADMIN_ID as the environment may set it: unset, or the id of u1 *)
InitStrangers ==
  /\ Loaded
  /\ Len(saved) <= 2
  /\ ADMIN_ID \in {0, 1}
  /\ owned = [p \in Handlers |-> << << p, 0 >> >>]
  /\ upstream = owned["u1"] \o owned["u2"]

(* ctx.from.id differs from ADMIN_ID, or ADMIN_ID is not set *)
Stranger(p) == ADMIN_ID = 0 \/ UserId(p) # ADMIN_ID

(* the handlers that begin with if (!isAdmin(userId)) *)
AdminHandler(p) ==
  \/ AdminSettingsAction(p)
  \/ AdminProxyMenuAction(p)
  \/ AdminApiMenuAction(p)
  \/ AdminAddProxyAction(p)
  \/ \E k \in 0..1 : AdminDelProxyAction(p, k)
  \/ \E t \in Handlers : AdminUserAction(p, t)
  \/ \E t \in Handlers, k \in 0..1 : AdminDelEmailAction(p, t, k)

(* a text message, whatever the step *)
TextMessage(p) ==
  \E text \in PromptTexts : ApiKeyText(p, text) \/ ProxyText(p, text)

(* Every user pressing the administrator's buttons and typing; the    *)
(* deletion of a user's address is left to the users who are not the   *)
(* administrator.                                                      *)
NextStrangers ==
  \/ \E p, t \in Handlers, k \in 0..1 : Stranger(p) /\ AdminDelEmailAction(p, t, k)
  \/ \E p \in Handlers : Start(p)
  \/ \E p \in Handlers : AdminSettingsAction(p)
  \/ \E p \in Handlers : AdminProxyMenuAction(p)
  \/ \E p \in Handlers : AdminApiMenuAction(p)
  \/ \E p \in Handlers : AdminAddProxyAction(p)
  \/ \E p \in Handlers, k \in 0..1 : AdminDelProxyAction(p, k)
  \/ \E p, t \in Handlers : AdminUserAction(p, t)
  \/ \E p \in Handlers : TextMessage(p)

SpecStrangers == InitStrangers /\ [][NextStrangers]_vars

NextSessions ==
  \/ \E p \in Solo : Start(p)
  \/ \E p \in Solo : DomainAction(p)
  \/ \E p \in Solo : AdminApiMenuAction(p)
  \/ \E p \in Solo : Quiet /\ ListAction(p)
  \/ \E p \in Solo : ListDone(p)
  \/ \E p \in Solo, k \in 0..1 : Quiet /\ ViewEmailAction(p, k)
  \/ \E p \in Solo : ViewEmailDone(p)
  \/ \E p \in Solo : Dispatch(p)
  \/ \E p \in Solo : GateWake(p)
  \/ \E p \in Solo, st \in Statuses : Respond(p, st)
  \/ \E p \in Solo : BackoffWake(p)
  \/ ~Quiet /\ Tick

SpecSessions == InitOwn /\ [][NextSessions]_vars

(* C37: whatever a user sends, also before any /start, no handler     *)
(* fails on a missing session object, and a listing the provider       *)
(* answered is not reported to the user as an error.                   *)
C37_SessionAlwaysFound ==
  \A p \in Handlers : reply[p] \notin {"TypeError", "error TypeError"}

====
